---- MODULE Spec2Model ----
(***************************************************************************)
(* Pixie AI Service: configuration loading (config.py) and the process     *)
(* lifecycle, HTTP surface, CORS policy and error boundary (main.py).       *)
(*                                                                         *)
(* Text is modelled as a sequence of one-character strings, so that        *)
(* str.split, str.strip, str.upper, str.lower and the int coercion are      *)
(* computed character by character.                                         *)
(***************************************************************************)
EXTENDS Integers, Sequences, FiniteSets, TLC

VARIABLES
    env,          \* os.environ restricted to the keys of Settings: key -> raw text
    dotenv,       \* the key -> value pairs read from the .env file
    phase,        \* position of the process: module initialisation, serving, stop
    settings,     \* config.settings: field name -> value
    loadCount,    \* how many times Settings() has been constructed
    logLevel,     \* level handed to logging.basicConfig
    cors,         \* the installed CORSMiddleware
    lifespanPc,   \* position of the lifespan generator
    startupLog,   \* the startup log records
    shutdownLogs, \* number of "Shutting down Pixie AI Service" records
    conns         \* requests in flight, each with its response once produced

vars == <<env, dotenv, phase, settings, loadCount, logLevel, cors,
          lifespanPc, startupLog, shutdownLogs, conns>>

-----------------------------------------------------------------------------
(* Bounds *)

\* longest allowed_origins text enumerated for the origin-list property
MaxLen == 5
\* most (source, field) overrides present in the environment and the .env file
MaxOverrides == 2
\* most requests in flight at once
MaxInFlight == 2

-----------------------------------------------------------------------------
(* Text helpers *)

Lowers == <<"a","b","c","d","e","f","g","h","i","j","k","l","m",
            "n","o","p","q","r","s","t","u","v","w","x","y","z">>
Uppers == <<"A","B","C","D","E","F","G","H","I","J","K","L","M",
            "N","O","P","Q","R","S","T","U","V","W","X","Y","Z">>
Digits == <<"0","1","2","3","4","5","6","7","8","9">>

LowerLetters == {Lowers[i] : i \in 1..26}
UpperLetters == {Uppers[i] : i \in 1..26}
UpperOf == [c \in LowerLetters |-> Uppers[CHOOSE i \in 1..26 : Lowers[i] = c]]
LowerOf == [c \in UpperLetters |-> Lowers[CHOOSE i \in 1..26 : Uppers[i] = c]]

UpperChar(c) == IF c \in LowerLetters THEN UpperOf[c] ELSE c

LowerChar(c) == IF c \in UpperLetters THEN LowerOf[c] ELSE c

\* str.upper()
Upper(s) == [i \in 1..Len(s) |-> UpperChar(s[i])]
\* str.lower()
Lower(s) == [i \in 1..Len(s) |-> LowerChar(s[i])]
\* first letter upper-cased, as in "Port"
Capitalize(s) == [i \in 1..Len(s) |-> IF i = 1 THEN UpperChar(s[i]) ELSE s[i]]

\* characters str.strip() removes
Whitespace == {" ", "\t", "\n", "\r"}

RECURSIVE LStrip(_)
LStrip(s) ==
    IF s # <<>> /\ Head(s) \in Whitespace THEN LStrip(Tail(s)) ELSE s

RECURSIVE RStrip(_)
RStrip(s) ==
    IF s # <<>> /\ s[Len(s)] \in Whitespace
    THEN RStrip(SubSeq(s, 1, Len(s) - 1)) ELSE s

\* str.strip()
Strip(s) == RStrip(LStrip(s))

\* str.split(","): cut at every comma, empty pieces kept
RECURSIVE SplitComma(_)
SplitComma(s) ==
    IF \E i \in 1..Len(s) : s[i] = ","
    THEN LET i == CHOOSE k \in 1..Len(s) :
                      s[k] = "," /\ \A j \in 1..(k - 1) : s[j] # ","
         IN  <<SubSeq(s, 1, i - 1)>> \o SplitComma(SubSeq(s, i + 1, Len(s)))
    ELSE <<s>>

DigitValue(c) == (CHOOSE i \in 1..10 : Digits[i] = c) - 1
IsDigit(c) == \E i \in 1..10 : Digits[i] = c

RECURSIVE DigitsValue(_)
DigitsValue(s) ==
    IF s = <<>> THEN 0
    ELSE DigitsValue(SubSeq(s, 1, Len(s) - 1)) * 10 + DigitValue(s[Len(s)])

\* the integer coercion of a raw text: an optional sign and decimal digits
HasSign(s) == s # <<>> /\ Head(s) \in {"+", "-"}
Unsigned(s) == IF HasSign(s) THEN Tail(s) ELSE s
IsIntText(s) == Unsigned(s) # <<>> /\ \A i \in 1..Len(Unsigned(s)) : IsDigit(Unsigned(s)[i])
ParseInt(s) ==
    IF HasSign(s) /\ Head(s) = "-" THEN 0 - DigitsValue(Unsigned(s))
    ELSE DigitsValue(Unsigned(s))

-----------------------------------------------------------------------------
(* Settings: fields, types, defaults (config.py) *)

\* a field value: text, integer or None, in one record shape
StrV(s) == [kind |-> "str", s |-> s, n |-> 0]
IntV(n) == [kind |-> "int", s |-> <<>>, n |-> n]
NoneV == [kind |-> "none", s |-> <<>>, n |-> 0]
\* the value of a field before Settings() has run
UnsetV == [kind |-> "unset", s |-> <<>>, n |-> 0]

Fields == {"environment", "log_level", "openai_api_key", "anthropic_api_key",
           "qdrant_host", "qdrant_port", "qdrant_api_key", "database_url",
           "redis_url", "port", "allowed_origins", "internal_api_key"}

IntFields == {"qdrant_port", "port"}

\* the field name as text, as the settings sources look it up
FieldKey(f) ==
    CASE f = "environment" -> <<"e","n","v","i","r","o","n","m","e","n","t">>
      [] f = "log_level" -> <<"l","o","g","_","l","e","v","e","l">>
      [] f = "openai_api_key" -> <<"o","p","e","n","a","i","_","a","p","i","_","k","e","y">>
      [] f = "anthropic_api_key" ->
            <<"a","n","t","h","r","o","p","i","c","_","a","p","i","_","k","e","y">>
      [] f = "qdrant_host" -> <<"q","d","r","a","n","t","_","h","o","s","t">>
      [] f = "qdrant_port" -> <<"q","d","r","a","n","t","_","p","o","r","t">>
      [] f = "qdrant_api_key" -> <<"q","d","r","a","n","t","_","a","p","i","_","k","e","y">>
      [] f = "database_url" -> <<"d","a","t","a","b","a","s","e","_","u","r","l">>
      [] f = "redis_url" -> <<"r","e","d","i","s","_","u","r","l">>
      [] f = "port" -> <<"p","o","r","t">>
      [] f = "allowed_origins" -> <<"a","l","l","o","w","e","d","_","o","r","i","g","i","n","s">>
      [] f = "internal_api_key" -> <<"i","n","t","e","r","n","a","l","_","a","p","i","_","k","e","y">>

T_development == <<"d","e","v","e","l","o","p","m","e","n","t">>
T_INFO == <<"I","N","F","O">>
T_localhost == <<"l","o","c","a","l","h","o","s","t">>
T_redis_default == <<"r","e","d","i","s",":","/","/","l","o","c","a","l","h","o","s","t",
                     ":","6","3","7","9","/","0">>
T_origin_default == <<"h","t","t","p",":","/","/","l","o","c","a","l","h","o","s","t",
                      ":","3","0","0","0">>

\* texts used as inputs
T_origins_two == <<" ","h","t","t","p",":","/","/","a",".","c","o","m"," ",",","h","t","t","p",":","/","/","b",".","c","o","m">>
T_origin_a == <<"h","t","t","p",":","/","/","a",".","c","o","m">>
T_origin_evil == <<"h","t","t","p",":","/","/","e","v","i","l",".","c","o","m">>
T_star == <<"*">>
T_Production == <<"P","r","o","d","u","c","t","i","o","n">>
T_staging == <<"s","t","a","g","i","n","g">>

\* the compiled-in default of each field
Default(f) ==
    CASE f = "environment" -> StrV(T_development)
      [] f = "log_level" -> StrV(T_INFO)
      [] f = "openai_api_key" -> StrV(<<>>)
      [] f = "anthropic_api_key" -> NoneV
      [] f = "qdrant_host" -> StrV(T_localhost)
      [] f = "qdrant_port" -> IntV(6333)
      [] f = "qdrant_api_key" -> NoneV
      [] f = "database_url" -> NoneV
      [] f = "redis_url" -> StrV(T_redis_default)
      [] f = "port" -> IntV(8000)
      [] f = "allowed_origins" -> StrV(T_origin_default)
      [] f = "internal_api_key" -> StrV(<<>>)

\* does the raw text pass the field's declared type
Valid(f, raw) == f \in IntFields => IsIntText(raw)

\* a lenient coercion that keeps the default when the text is no integer
CoerceOrDefault(f, raw) ==
    IF f \in IntFields
    THEN IF IsIntText(raw) THEN IntV(ParseInt(raw)) ELSE Default(f)
    ELSE StrV(raw)

\* the raw text coerced to the field's declared type (an int field's text must
\* be an integer literal; Validate rejects the load otherwise)
Coerce(f, raw) ==
    IF f \in IntFields
    THEN IF IsIntText(raw) THEN IntV(ParseInt(raw)) ELSE UnsetV
    ELSE StrV(raw)

-----------------------------------------------------------------------------
(* Settings sources and construction (pydantic-settings BaseSettings) *)

\* a mapping with no entries
NoEntries == [k \in {} |-> <<>>]

\* one settings source: the entries of a key -> text mapping whose key,
\* lower-cased (case_sensitive=False), is a field name
SourceValues(m) ==
    [f \in {g \in Fields : \E k \in DOMAIN m : Lower(k) = FieldKey(g)} |->
        m[CHOOSE k \in DOMAIN m : Lower(k) = FieldKey(f)]]

\* the sources with the .env file ahead of the environment
SourcesFileFirst(e, d) == <<SourceValues(d), SourceValues(e)>>

\* the sources in priority order: environment variables, then env_file=".env"
Sources(e, d) == <<SourceValues(e), SourceValues(d)>>

\* base updated with the entries of over
Update(base, over) ==
    [f \in (DOMAIN base) \cup (DOMAIN over) |->
        IF f \in DOMAIN over THEN over[f] ELSE base[f]]

\* the sources merged, an earlier source's entry winning over a later one's
RECURSIVE BuildValues(_, _)
BuildValues(srcs, state) ==
    IF srcs = <<>> THEN state
    ELSE BuildValues(Tail(srcs), Update(Head(srcs), state))

\* a construction that never fails: a malformed int keeps the default
SettingsInitLenient(e, d) ==
    LET values == BuildValues(Sources(e, d), NoEntries)
    IN  [ok |-> TRUE,
         fields |-> [f \in Fields |->
                        IF f \in DOMAIN values THEN CoerceOrDefault(f, values[f])
                        ELSE Default(f)]]

\* Settings(): merge the sources, validate every given field against its
\* type (one failure fails the whole construction), default the rest
SettingsInit(e, d) ==
    LET values == BuildValues(Sources(e, d), NoEntries)
    IN  [ok |-> \A f \in DOMAIN values : Valid(f, values[f]),
         fields |-> [f \in Fields |->
                        IF f \in DOMAIN values THEN Coerce(f, values[f])
                        ELSE Default(f)]]

\* Settings.is_production
is_production(st) == Lower(st["environment"].s) = <<"p","r","o","d","u","c","t","i","o","n">>

\* an origin list whose entries are left untrimmed
allowed_origins_list_unstripped(st) == SplitComma(st["allowed_origins"].s)

\* Settings.allowed_origins_list
allowed_origins_list(st) ==
    LET parts == SplitComma(st["allowed_origins"].s)
    IN  [i \in 1..Len(parts) |-> Strip(parts[i])]

-----------------------------------------------------------------------------
(* Module initialisation and lifespan (main.py) *)

\* the level names getattr(logging, ...) resolves to a level
LoggingLevelNames ==
    { <<"C","R","I","T","I","C","A","L">>, <<"F","A","T","A","L">>,
      <<"E","R","R","O","R">>, <<"W","A","R","N","I","N","G">>, <<"W","A","R","N">>,
      <<"I","N","F","O">>, <<"D","E","B","U","G">>, <<"N","O","T","S","E","T">> }

NoStartupLog == [emitted |-> FALSE, environment |-> <<>>, port |-> 0, log_level |-> <<>>]
NoCors == [installed |-> FALSE, allow_origins |-> <<>>, allow_credentials |-> FALSE]

\* from config import settings: settings = Settings() runs once, at import
LoadSettings ==
    /\ phase = "init"
    /\ LET r == SettingsInit(env, dotenv)
       IN  /\ loadCount' = loadCount + 1
           /\ IF r.ok
              THEN settings' = r.fields /\ phase' = "loaded"
              ELSE settings' = settings /\ phase' = "crashed"
    /\ UNCHANGED <<env, dotenv, logLevel, cors, lifespanPc, startupLog, shutdownLogs, conns>>

\* logging.basicConfig(level=getattr(logging, settings.log_level.upper()))
ConfigureLogging ==
    /\ phase = "loaded"
    /\ LET name == Upper(settings["log_level"].s)
       IN  IF name \in LoggingLevelNames
           THEN logLevel' = name /\ phase' = "logging"
           ELSE logLevel' = logLevel /\ phase' = "crashed"
    /\ UNCHANGED <<env, dotenv, settings, loadCount, cors, lifespanPc, startupLog,
                   shutdownLogs, conns>>

\* a startup that also normalises the environment name in place
LifespanStartupNormalising ==
    /\ phase = "app"
    /\ lifespanPc = "start"
    /\ settings' = [settings EXCEPT !["environment"] = StrV(Lower(@.s))]
    /\ startupLog' = [emitted |-> TRUE,
                      environment |-> settings["environment"].s,
                      port |-> settings["port"].n,
                      log_level |-> settings["log_level"].s]
    /\ lifespanPc' = "yielded"
    /\ phase' = "serving"
    /\ UNCHANGED <<env, dotenv, loadCount, logLevel, cors, shutdownLogs, conns>>

\* a startup that emits the shutdown record before yielding
LifespanStartupEarlyShutdown ==
    /\ phase = "app"
    /\ lifespanPc = "start"
    /\ startupLog' = [emitted |-> TRUE,
                      environment |-> settings["environment"].s,
                      port |-> settings["port"].n,
                      log_level |-> settings["log_level"].s]
    /\ shutdownLogs' = shutdownLogs + 1
    /\ lifespanPc' = "yielded"
    /\ phase' = "serving"
    /\ UNCHANGED <<env, dotenv, settings, loadCount, logLevel, cors, conns>>

\* lifespan up to its yield: the startup records, then the server starts serving
LifespanStartup ==
    /\ phase = "app"
    /\ lifespanPc = "start"
    /\ startupLog' = [emitted |-> TRUE,
                      environment |-> settings["environment"].s,
                      port |-> settings["port"].n,
                      log_level |-> settings["log_level"].s]
    /\ lifespanPc' = "yielded"
    /\ phase' = "serving"
    /\ UNCHANGED <<env, dotenv, settings, loadCount, logLevel, cors, shutdownLogs, conns>>

-----------------------------------------------------------------------------
(* HTTP surface, CORS middleware and error boundary (main.py) *)

\* app.__version__
app_version == "0.1.0"

\* a JSON body in one record shape; keys names the members present
EmptyBody ==
    [keys |-> {}, success |-> FALSE, error |-> "", message |-> "", service |-> "",
     status |-> "", version |-> "", environment |-> <<>>, detail |-> "", text |-> ""]

\* an exception raised while a request is handled; base is its place in the
\* class hierarchy: Exception, HTTPException (an Exception the framework
\* answers itself) or BaseException (outside Exception)
NoFault == [type |-> "none", msg |-> "", base |-> "none"]
Faults ==
    { [type |-> "ValueError", msg |-> "invalid token sk-123", base |-> "Exception"],
      [type |-> "KeyError", msg |-> "db_password", base |-> "Exception"],
      [type |-> "HTTPException", msg |-> "teapot", base |-> "HTTPException"],
      [type |-> "CancelledError", msg |-> "cancelled", base |-> "BaseException"] }

NoErrorLog == [logged |-> FALSE, type |-> "", path |-> "", method |-> ""]

\* what a layer of the application hands to the layer around it: a response,
\* or (sent = FALSE) the exception exc propagating
Reply(status, body, via) ==
    [sent |-> TRUE, status |-> status, body |-> body, acao |-> <<>>, acac |-> FALSE,
     via |-> via, errorLog |-> NoErrorLog, exc |-> NoFault]
Raising(exc) ==
    [sent |-> FALSE, status |-> 0, body |-> EmptyBody, acao |-> <<>>, acac |-> FALSE,
     via |-> "none", errorLog |-> NoErrorLog, exc |-> exc]
NoResp == Raising(NoFault)

\* root()
root ==
    [EmptyBody EXCEPT !.keys = {"service", "status"},
                      !.service = "pixie-ai", !.status = "running"]

\* a health body that reports the default environment name
health_check_default(st) ==
    [EmptyBody EXCEPT !.keys = {"status", "version", "environment"},
                      !.status = "healthy", !.version = "0.1.0",
                      !.environment = T_development]

\* health_check()
health_check(st) ==
    [EmptyBody EXCEPT !.keys = {"status", "version", "environment"},
                      !.status = "healthy", !.version = "0.1.0",
                      !.environment = st["environment"].s]

\* the fixed body of the error boundary
ErrorBody ==
    [EmptyBody EXCEPT !.keys = {"success", "error", "message"},
                      !.success = FALSE, !.error = "internal_error",
                      !.message = "An unexpected error occurred. Please try again."]

\* an error boundary that reports the exception text to the caller
global_exception_handler_leaky(req, exc) ==
    [Reply(500, [ErrorBody EXCEPT !.message = exc.msg], "error_boundary")
        EXCEPT !.errorLog = [logged |-> TRUE, type |-> exc.type,
                             path |-> req.path, method |-> req.method]]

\* global_exception_handler(request, exc)
global_exception_handler(req, exc) ==
    [Reply(500, ErrorBody, "error_boundary")
        EXCEPT !.errorLog = [logged |-> TRUE, type |-> exc.type,
                             path |-> req.path, method |-> req.method]]

\* a registration for ValueError alone
HandlerCoversValueErrorOnly(exc) == exc.type = "ValueError"

\* @app.exception_handler(Exception): the exceptions the error boundary is
\* registered for, those of class Exception without a handler of their own
HandlerCovers(exc) == exc.base = "Exception"

RoutePaths == {"/", "/health"}

\* the routes of the application and the framework's answers around them:
\* a fault raised by the handler, the handler's body, or HTTPException 404/405
Router(req, st) ==
    IF req.path \notin RoutePaths
    THEN Reply(404, [EmptyBody EXCEPT !.keys = {"detail"}, !.detail = "Not Found"],
               "http_exception")
    ELSE IF req.method # "GET"
    THEN Reply(405, [EmptyBody EXCEPT !.keys = {"detail"}, !.detail = "Method Not Allowed"],
               "http_exception")
    ELSE IF req.fault.base = "HTTPException"
    THEN Reply(418, [EmptyBody EXCEPT !.keys = {"detail"}, !.detail = req.fault.msg],
               "http_exception")
    ELSE IF req.fault # NoFault
    THEN Raising(req.fault)
    ELSE IF req.path = "/"
    THEN Reply(200, root, "route")
    ELSE Reply(200, health_check(st), "route")

\* a CORS policy that allows every origin
CorsConfigWildcard(st) ==
    [installed |-> TRUE, allow_origins |-> <<T_star>>, allow_credentials |-> TRUE]

\* app.add_middleware(CORSMiddleware, allow_origins=settings.allowed_origins_list,
\* allow_credentials=True, ...)
CorsConfig(st) ==
    [installed |-> TRUE, allow_origins |-> allowed_origins_list(st),
     allow_credentials |-> TRUE]

allow_methods == {"GET", "POST", "PUT", "DELETE"}

Range(q) == {q[i] : i \in 1..Len(q)}

\* CORSMiddleware: "*" among the origins allows every origin
allow_all_origins(c) == T_star \in Range(c.allow_origins)
is_allowed_origin(c, origin) ==
    allow_all_origins(c) \/ origin \in Range(c.allow_origins)

\* CORSMiddleware.preflight_response: answered by the middleware itself
preflight_response(c, req) ==
    LET explicit == ~allow_all_origins(c) \/ c.allow_credentials
        okOrigin == is_allowed_origin(c, req.origin)
        okMethod == req.acrm \in allow_methods
        acao == IF okOrigin
                THEN (IF explicit THEN req.origin ELSE T_star)
                ELSE (IF explicit THEN <<>> ELSE T_star)
    IN  [Reply(IF okOrigin /\ okMethod THEN 200 ELSE 400,
               [EmptyBody EXCEPT !.keys = {"text"},
                    !.text = IF okOrigin /\ okMethod THEN "OK"
                             ELSE "Disallowed CORS"],
               "preflight")
            EXCEPT !.acao = acao, !.acac = c.allow_credentials]

\* CORSMiddleware.simple_response: the headers added to the inner response
simple_response(c, req, inner) ==
    IF ~inner.sent THEN inner
    ELSE [inner EXCEPT
            !.acac = c.allow_credentials,
            !.acao = IF allow_all_origins(c) /\ req.cookie THEN req.origin
                     ELSE IF ~allow_all_origins(c) /\ is_allowed_origin(c, req.origin)
                     THEN req.origin
                     ELSE IF allow_all_origins(c) THEN T_star
                     ELSE <<>>]

\* CORSMiddleware.__call__
CorsLayer(c, req, st) ==
    IF req.origin = <<>> THEN Router(req, st)
    ELSE IF req.method = "OPTIONS" /\ req.acrm # ""
    THEN preflight_response(c, req)
    ELSE simple_response(c, req, Router(req, st))

\* the whole application for one request: the error boundary around the CORS
\* layer around the routes. An exception the boundary covers is answered by
\* global_exception_handler and raised on to the server; any other reaches the
\* server unanswered, and the server sends its own plain 500
Dispatch(c, req, st) ==
    LET inner == CorsLayer(c, req, st)
    IN  IF inner.sent THEN inner
        ELSE IF HandlerCovers(inner.exc)
        THEN [global_exception_handler(req, inner.exc) EXCEPT !.exc = inner.exc]
        ELSE [Reply(500, [EmptyBody EXCEPT !.keys = {"text"},
                                           !.text = "Internal Server Error"], "server")
                EXCEPT !.exc = inner.exc]

\* app = FastAPI(..., lifespan=lifespan); app.add_middleware(CORSMiddleware, ...)
CreateApp ==
    /\ phase = "logging"
    /\ cors' = CorsConfig(settings)
    /\ phase' = "app"
    /\ UNCHANGED <<env, dotenv, settings, loadCount, logLevel, lifespanPc, startupLog,
                   shutdownLogs, conns>>

NoHeaders == [origin |-> <<>>, cookie |-> FALSE, acrm |-> ""]
Req(method, path, h, fault) ==
    [method |-> method, path |-> path, origin |-> h.origin, cookie |-> h.cookie,
     acrm |-> h.acrm, fault |-> fault]

\* the requests tried
Requests ==
    {Req("GET", "/", NoHeaders, f) : f \in Faults \cup {NoFault}}
    \cup {Req("GET", "/health", [NoHeaders EXCEPT !.origin = o], f) :
            o \in {<<>>, T_origin_a, T_origin_evil},
            f \in {NoFault, CHOOSE x \in Faults : x.type = "ValueError"}}
    \cup {Req("GET", "/health", [NoHeaders EXCEPT !.origin = T_origin_evil, !.cookie = TRUE],
              NoFault)}
    \cup {Req("GET", "/missing", [NoHeaders EXCEPT !.origin = o], NoFault) :
            o \in {<<>>, T_origin_evil}}
    \cup {Req("POST", "/health", NoHeaders, NoFault)}
    \cup {Req("OPTIONS", "/health", [NoHeaders EXCEPT !.origin = o, !.acrm = m], NoFault) :
            o \in {T_origin_a, T_origin_evil}, m \in {"GET", "PATCH"}}
    \cup {Req("OPTIONS", "/health", [NoHeaders EXCEPT !.origin = T_origin_evil], NoFault)}

\* the server takes a request: only while serving
Accept ==
    /\ phase = "serving"
    /\ Cardinality(conns) < MaxInFlight
    /\ \E r \in Requests :
         conns' = conns \cup {[req |-> r, stage |-> "accepted", resp |-> NoResp]}
    /\ UNCHANGED <<env, dotenv, phase, settings, loadCount, logLevel, cors, lifespanPc,
                   startupLog, shutdownLogs>>

\* the application answers a request in flight
Respond ==
    /\ phase \in {"serving", "draining"}
    /\ \E c \in conns :
         /\ c.stage = "accepted"
         /\ conns' = (conns \ {c}) \cup
                {[c EXCEPT !.stage = "responded", !.resp = Dispatch(cors, c.req, settings)]}
    /\ UNCHANGED <<env, dotenv, phase, settings, loadCount, logLevel, cors, lifespanPc,
                   startupLog, shutdownLogs>>

\* the response is delivered and the request is over
Close ==
    /\ \E c \in conns :
         /\ c.stage = "responded"
         /\ conns' = conns \ {c}
    /\ UNCHANGED <<env, dotenv, phase, settings, loadCount, logLevel, cors, lifespanPc,
                   startupLog, shutdownLogs>>

\* the server is told to stop: it takes no new request and drains those in flight
BeginShutdown ==
    /\ phase = "serving"
    /\ phase' = "draining"
    /\ UNCHANGED <<env, dotenv, settings, loadCount, logLevel, cors, lifespanPc,
                   startupLog, shutdownLogs, conns>>

\* lifespan resumed after its yield, once the last request is over: the
\* shutdown record
LifespanShutdown ==
    /\ phase = "draining"
    /\ conns = {}
    /\ lifespanPc = "yielded"
    /\ shutdownLogs' = shutdownLogs + 1
    /\ lifespanPc' = "done"
    /\ phase' = "stopped"
    /\ UNCHANGED <<env, dotenv, settings, loadCount, logLevel, cors, startupLog, conns>>

\* an exception (such as CancelledError) thrown into lifespan at its yield:
\* no try/finally encloses the yield, so the generator ends there
LifespanThrow ==
    /\ phase \in {"serving", "draining"}
    /\ lifespanPc = "yielded"
    /\ lifespanPc' = "raised"
    /\ phase' = "stopped"
    /\ conns' = {}
    /\ UNCHANGED <<env, dotenv, settings, loadCount, logLevel, cors, startupLog,
                   shutdownLogs>>

-----------------------------------------------------------------------------
(* Inputs: the environment and the .env file *)

\* the two raw texts tried for each field
RawChoice(f, i) ==
    CASE f = "environment" -> IF i = 1 THEN T_Production ELSE T_staging
      [] f = "log_level" -> IF i = 1 THEN <<"d","e","b","u","g">> ELSE <<"l","o","u","d">>
      [] f \in IntFields -> IF i = 1 THEN <<"9","0","0","0">> ELSE <<"a","b","c">>
      [] f = "allowed_origins" -> IF i = 1 THEN T_origins_two ELSE T_star
      [] OTHER -> IF i = 1 THEN <<"k","1">> ELSE <<>>

KeyStyles == {"upper", "lower", "capital"}

\* a field's key as spelled in the environment or the file
Spell(style, f) ==
    CASE style = "upper" -> Upper(FieldKey(f))
      [] style = "lower" -> FieldKey(f)
      [] style = "capital" -> Capitalize(FieldKey(f))

Slots == {"env", "file"} \X Fields

\* the sets of at most k (source, field) slots
RECURSIVE OverrideSets(_)
OverrideSets(k) ==
    IF k = 0 THEN {{}}
    ELSE LET P == OverrideSets(k - 1)
         IN  P \cup {T \cup {x} : T \in P, x \in Slots}

\* the key -> text mapping of one source: choice maps each overridden field to
\* the index of its raw text
Mapping(style, choice) ==
    [k \in {Spell(style, f) : f \in DOMAIN choice} |->
        LET f == CHOOSE g \in DOMAIN choice : Spell(style, g) = k
        IN  RawChoice(f, choice[f])]

\* the fields a set of slots overrides in one source
SlotFields(src, chosen) == {c[2] : c \in {x \in chosen : x[1] = src}}

\* the state of a process about to import config, common to every run
InitProcess ==
    /\ phase = "init"
    /\ settings = [f \in Fields |-> UnsetV]
    /\ loadCount = 0
    /\ logLevel = <<>>
    /\ cors = NoCors
    /\ lifespanPc = "start"
    /\ startupLog = NoStartupLog
    /\ shutdownLogs = 0
    /\ conns = {}

\* configuration runs: any overrides within the bound, any key spelling
InitConfig ==
    /\ \E chosen \in OverrideSets(MaxOverrides), style \in KeyStyles :
         \E pick \in [chosen -> 1..2] :
            /\ env = Mapping(style, [f \in SlotFields("env", chosen) |-> pick[<<"env", f>>]])
            /\ dotenv = Mapping(style, [f \in SlotFields("file", chosen) |-> pick[<<"file", f>>]])
    /\ InitProcess

NextConfig ==
    \/ LoadSettings
    \/ ConfigureLogging
    \/ CreateApp
    \/ LifespanStartup

\* module initialisation up to the first served state, over all configurations
SpecConfig == InitConfig /\ [][NextConfig]_vars

-----------------------------------------------------------------------------
(* Origin-list runs: ALLOWED_ORIGINS ranges over every short text *)

OriginAlphabet == {"a", "b", ",", " "}
OriginTexts == UNION {[1..n -> OriginAlphabet] : n \in 0..MaxLen}

InitOrigins ==
    /\ \E raw \in OriginTexts :
         env = [k \in {Upper(FieldKey("allowed_origins"))} |-> raw]
    /\ dotenv = NoEntries
    /\ InitProcess

NextOrigins ==
    \/ LoadSettings
    \/ ConfigureLogging
    \/ CreateApp

SpecOrigins == InitOrigins /\ [][NextOrigins]_vars

-----------------------------------------------------------------------------
(* Whole-process runs over a few configurations *)

Scenarios ==
    { [style |-> "upper", e |-> NoEntries, d |-> NoEntries],
      [style |-> "upper", e |-> [f \in {"allowed_origins"} |-> 1], d |-> NoEntries],
      [style |-> "lower", e |-> [f \in {"allowed_origins"} |-> 2], d |-> NoEntries],
      [style |-> "capital", e |-> [f \in {"environment"} |-> 1],
                            d |-> [f \in {"environment"} |-> 2]],
      [style |-> "upper", e |-> [f \in {"port"} |-> 2], d |-> NoEntries],
      [style |-> "upper", e |-> NoEntries, d |-> [f \in {"log_level"} |-> 2]] }

Init ==
    /\ \E sc \in Scenarios :
         /\ env = Mapping(sc.style, sc.e)
         /\ dotenv = Mapping(sc.style, sc.d)
    /\ InitProcess

Next ==
    \/ LoadSettings
    \/ ConfigureLogging
    \/ CreateApp
    \/ LifespanStartup
    \/ Accept
    \/ Respond
    \/ Close
    \/ BeginShutdown
    \/ LifespanShutdown
    \/ LifespanThrow

Spec == Init /\ [][Next]_vars

-----------------------------------------------------------------------------
(* Properties *)

Loaded == settings["port"].kind # "unset"
Responded == {c \in conns : c.stage = "responded"}

\* the texts a response body carries
BodyTexts(b) == {b.error, b.message, b.service, b.status, b.version, b.detail, b.text}

C2_TotalCoverage ==
    \A c \in Responded :
        (c.req.fault # NoFault /\ c.req.fault.base # "HTTPException") =>
            c.resp.via = "error_boundary"

\* C2 amended: the error boundary answers exactly the exceptions of class
\* Exception that have no handler of their own, and logs their type name with
\* the request's path and method; an HTTPException is answered by the
\* framework's handler instead, and an exception outside Exception (such as
\* CancelledError) is not caught by the boundary and reaches the server
C2_ExceptionCoverage ==
    \A c \in Responded :
        /\ c.req.fault.base = "Exception" =>
              /\ c.resp.via = "error_boundary"
              /\ c.resp.errorLog =
                    [logged |-> TRUE, type |-> c.req.fault.type,
                     path |-> c.req.path, method |-> c.req.method]
        /\ c.req.fault.base = "HTTPException" =>
              c.resp.via = "http_exception" /\ ~c.resp.errorLog.logged
        /\ c.req.fault.base = "BaseException" =>
              /\ c.resp.via = "server"
              /\ ~c.resp.errorLog.logged
              /\ c.resp.exc = c.req.fault
        /\ c.resp.via = "error_boundary" => c.req.fault.base = "Exception"

\* a KeyError has been answered by the boundary while a CancelledError went past it
C2_Witness ==
    /\ \E c \in Responded : c.req.fault.type = "KeyError" /\ c.resp.via = "error_boundary"
    /\ \E c \in Responded : c.req.fault.type = "CancelledError" /\ c.resp.via = "server"

\* C3 as stated: once the lifespan generator has left its yield, by return or
\* by an exception, the shutdown record has been emitted
C3_ShutdownOnEveryExit ==
    lifespanPc \in {"done", "raised"} => shutdownLogs = 1

\* C4: while any request is in flight the startup records have been emitted,
\* the lifespan generator is suspended at its yield and no shutdown record has
\* been emitted; before startup and after shutdown no request is in flight
C4_LifecycleOrdering ==
    /\ conns # {} =>
          /\ startupLog.emitted
          /\ lifespanPc = "yielded"
          /\ shutdownLogs = 0
    /\ shutdownLogs > 0 => conns = {} /\ phase = "stopped" /\ startupLog.emitted
    /\ ~startupLog.emitted => conns = {}

\* the server is draining a request that is still in flight
C4_Witness ==
    /\ phase = "draining"
    /\ \E c \in conns : c.stage = "accepted"
    /\ startupLog.emitted

\* the effective raw text of a field: the environment's, else the file's
EnvHas(f) == \E k \in DOMAIN env : Lower(k) = FieldKey(f)
EnvRaw(f) == env[CHOOSE k \in DOMAIN env : Lower(k) = FieldKey(f)]
FileHas(f) == \E k \in DOMAIN dotenv : Lower(k) = FieldKey(f)
FileRaw(f) == dotenv[CHOOSE k \in DOMAIN dotenv : Lower(k) = FieldKey(f)]
Malformed(f) ==
    \/ EnvHas(f) /\ ~IsIntText(EnvRaw(f))
    \/ ~EnvHas(f) /\ FileHas(f) /\ ~IsIntText(FileRaw(f))

\* C5: when the text given for port or qdrant_port is no integer, Settings is
\* never constructed and nothing after it runs: no settings value, no logging
\* level, no application, no startup, no serving state
C5_MalformedIntNeverServes ==
    \A f \in IntFields :
        Malformed(f) =>
            /\ phase \in {"init", "crashed"}
            /\ ~Loaded
            /\ \A g \in Fields : settings[g] = UnsetV
            /\ ~cors.installed
            /\ lifespanPc = "start"
            /\ ~startupLog.emitted

\* PORT is malformed in the environment and the import has failed
C5_Witness ==
    /\ EnvHas("port")
    /\ ~IsIntText(EnvRaw("port"))
    /\ phase = "crashed"
    /\ loadCount = 1

\* C6: after a successful load every field holds the environment variable's
\* text when the variable is set (key compared case-insensitively), otherwise
\* the .env file's, otherwise the compiled default; and a load fails only when
\* the text that takes effect for some int field is no integer
C6_Precedence ==
    /\ Loaded =>
          \A f \in Fields :
             settings[f] = IF EnvHas(f) THEN Coerce(f, EnvRaw(f))
                           ELSE IF FileHas(f) THEN Coerce(f, FileRaw(f))
                           ELSE Default(f)
    /\ (phase # "init" /\ ~Loaded) => \E f \in IntFields : Malformed(f)

\* a field set to different texts in both sources, under a key that is not
\* lower case, has been loaded; another field kept its default
C6_Witness ==
    /\ Loaded
    /\ \E f \in Fields :
          /\ EnvHas(f) /\ FileHas(f)
          /\ EnvRaw(f) # FileRaw(f)
          /\ FieldKey(f) \notin DOMAIN env
          /\ settings[f] = Coerce(f, EnvRaw(f))
    /\ settings["port"] = IntV(8000)

\* C7: Settings is constructed at most once, before the application and its
\* CORS policy exist, and once loaded no step of the process changes any field
C7_SettingsReadOnly ==
    /\ [][Loaded => settings' = settings]_vars
    /\ [](loadCount <= 1)
    /\ [](cors.installed => Loaded /\ loadCount = 1)
    /\ [](Loaded => loadCount = 1)

\* the process has served and stopped with a non-default environment name
C7_Witness ==
    /\ phase = "stopped"
    /\ loadCount = 1
    /\ settings["environment"].s = T_Production
    /\ shutdownLogs = 1

\* the positions of the commas of a text, and its pieces between them
CommaPositions(t) == {i \in 1..Len(t) : t[i] = ","}
Cut(t, j) ==
    \* the position of the j-th comma; 0 and Len(t)+1 stand for the two ends
    IF j = 0 THEN 0
    ELSE IF j > Cardinality(CommaPositions(t)) THEN Len(t) + 1
    ELSE CHOOSE p \in CommaPositions(t) :
            Cardinality({q \in CommaPositions(t) : q < p}) = j - 1
Piece(t, j) == SubSeq(t, Cut(t, j - 1) + 1, Cut(t, j) - 1)
Trimmed(t) ==
    LET keep == {i \in 1..Len(t) : t[i] \notin Whitespace}
    IN  IF keep = {} THEN <<>>
        ELSE SubSeq(t, CHOOSE i \in keep : \A k \in keep : i <= k,
                       CHOOSE i \in keep : \A k \in keep : i >= k)

\* C8: the origin list has one entry per comma plus one; its j-th entry is the
\* text between the (j-1)-th and the j-th comma without its surrounding
\* whitespace, so order is kept and duplicates stay
C8_OriginList ==
    cors.installed =>
        LET t == settings["allowed_origins"].s
            l == cors.allow_origins
        IN  /\ Len(l) = Cardinality(CommaPositions(t)) + 1
            /\ \A j \in 1..Len(l) : l[j] = Trimmed(Piece(t, j))

\* " a ,b" has been parsed to the entries "a" and "b"
C8_Witness ==
    /\ cors.installed
    /\ settings["allowed_origins"].s = <<" ", "a", " ", ",", "b">>
    /\ cors.allow_origins = << <<"a">>, <<"b">> >>

\* does the Access-Control-Allow-Origin value h permit origin o
Permits(h, o) == h = o \/ h = T_star

\* C9 as stated: whatever allowed_origins is configured, a request whose Origin
\* is no element of allowed_origins_list gets no allow-origin header permitting it
C9_OnlyListedOrigins ==
    \A c \in Responded :
        (c.req.origin # <<>> /\ c.req.origin \notin Range(allowed_origins_list(settings)))
            => ~Permits(c.resp.acao, c.req.origin)

\* C9 amended: when allowed_origins_list has no "*" entry, a request whose
\* Origin is no element of the list gets no allow-origin header permitting it,
\* and one whose Origin is an element gets that origin back on every response
\* that passes through the CORS middleware; when the list has a "*" entry the
\* middleware permits every origin
C9_ListedOriginsUnlessWildcard ==
    \A c \in Responded :
        LET l == Range(allowed_origins_list(settings))
        IN  c.req.origin # <<>> =>
              /\ (T_star \notin l /\ c.req.origin \notin l) => c.resp.acao = <<>>
              /\ (T_star \notin l /\ c.req.origin \in l
                     /\ c.resp.via \notin {"error_boundary", "server"})
                    => c.resp.acao = c.req.origin
              /\ (T_star \in l /\ c.resp.via \notin {"error_boundary", "server"})
                    => Permits(c.resp.acao, c.req.origin)

\* under a list of two origins, a listed origin was allowed and an unlisted one
\* was answered without the header, in a preflight and in a plain request
C9_Witness ==
    /\ settings["allowed_origins"].s = T_origins_two
    /\ \E c \in Responded :
          c.req.origin = T_origin_a /\ c.resp.acao = T_origin_a
    /\ \E c \in Responded :
          c.req.origin = T_origin_evil /\ c.resp.acao = <<>> /\ c.resp.sent

\* C10: GET /health, when nothing faults, is answered 200 with status
\* "healthy", the service version and the environment name of the loaded Settings
C10_Health ==
    \A c \in Responded :
        (c.req.method = "GET" /\ c.req.path = "/health" /\ c.req.fault = NoFault) =>
            /\ c.resp.status = 200
            /\ c.resp.body.keys = {"status", "version", "environment"}
            /\ c.resp.body.status = "healthy"
            /\ c.resp.body.version = app_version
            /\ c.resp.body.environment = settings["environment"].s

\* /health has been answered under a non-default environment name
C10_Witness ==
    \E c \in Responded :
        /\ c.req.method = "GET" /\ c.req.path = "/health" /\ c.req.fault = NoFault
        /\ c.resp.status = 200
        /\ c.resp.body.environment = T_Production
        /\ phase = "serving"

====
